---- MODULE Spec2Model ----
(***************************************************************************)
(* Contact registry (measurements::MapContacts) and contact detection      *)
(* cycle (MCKineticsObserver) of mc_state_observation.                     *)
(***************************************************************************)
EXTENDS Integers, Sequences, FiniteSets, TLC

(***************************************************************************)
(* Universe of names.  Force sensors of the robot and contact surfaces.    *)
(* NameOrder is the lexicographic order in which std::set<std::string>     *)
(* and std::map<std::string, .> iterate over these names.                  *)
(***************************************************************************)
ForceSensors == {"fsL", "fsR"}
Surfaces == {"sA", "sB"}
Names == ForceSensors \cup Surfaces
NameOrder == <<"fsL", "fsR", "sA", "sB">>

\* Mass of the robot (kg), read from the robot model.
RobotMass == 40

VARIABLES
  assertsEnabled,          \* build: BOOST_ASSERT active (no NDEBUG / BOOST_DISABLE_ASSERTS)
  mapContacts_,            \* the MapContacts object
  lastCall,                \* the last call made on the program, with its arguments
  ret,                     \* value returned by the last call
  failure,                 \* "none", or how the last call failed (the program stops there)
  withContactsDetection_,  \* configuration: contacts come from the solver
  my_robots_,              \* "null" until reset() has built the robots
  simStarted_,             \* a contact has been detected since the last reset
  contactsFound_,          \* names of the contacts found by the last findContacts
  oldContacts_,            \* names of the contacts handled by the last updateContacts
  diffs,                   \* contacts removed by updateContacts in the last cycle
  isExternalWrench_,       \* per force sensor: its wrench is an external input
  observerContacts,        \* ids of the contacts currently added to observer_
  IMUs_,                   \* configuration: names of the body sensors used as IMUs
  mapIMUs_,                \* the MapIMUs object
  X_0_fb_,                 \* the committed pose of the floating base
  logger,                  \* names of the entries registered in the logger
  detectors,               \* the contact detection observers of the pipeline (fields below)
  odomConfig,              \* the LeggedOdometryManager::Configuration being built
  loContacts,              \* the contacts of the legged odometry, by contact id
  oriOdometryContacts_,    \* ids in oriOdometryContacts_, in the order of the std::set
  odometry                 \* the LeggedOdometryManager object (fields below)

registryVars == <<assertsEnabled, mapContacts_, lastCall, ret, failure>>
estimatorVars == <<IMUs_, mapIMUs_, X_0_fb_, logger>>
observerVars == <<withContactsDetection_, my_robots_, simStarted_, contactsFound_,
                  oldContacts_, diffs, isExternalWrench_, observerContacts, estimatorVars>>
pipelineVars == <<detectors, odomConfig, loContacts, oriOdometryContacts_, odometry>>
vars == <<registryVars, observerVars, pipelineVars>>

NoValue == "void"

(***************************************************************************)
(* Records                                                                 *)
(***************************************************************************)
\* ContactWithSensor(int id, std::string forceSensorName)
ContactWithSensor(id, forceSensorName) ==
  [id_ |-> id, name_ |-> forceSensorName, forceSensorName_ |-> forceSensorName,
   surface_ |-> "", sensorAttachedToSurface_ |-> TRUE,
   isSet_ |-> FALSE, wasAlreadySet_ |-> FALSE,
   sensorEnabled_ |-> TRUE, sensorWasEnabled_ |-> FALSE]

\* constructor with a surface that keeps the default of sensorAttachedToSurface_
ContactWithSensorSurface_defaultAttachment(id, forceSensorName, surfaceName, sensorAttachedToSurface) ==
  [id_ |-> id, name_ |-> surfaceName, forceSensorName_ |-> forceSensorName,
   surface_ |-> surfaceName, sensorAttachedToSurface_ |-> TRUE,
   isSet_ |-> FALSE, wasAlreadySet_ |-> FALSE,
   sensorEnabled_ |-> TRUE, sensorWasEnabled_ |-> FALSE]

\* ContactWithSensor(int id, forceSensorName, surfaceName, sensorAttachedToSurface)
ContactWithSensorSurface(id, forceSensorName, surfaceName, sensorAttachedToSurface) ==
  [id_ |-> id, name_ |-> surfaceName, forceSensorName_ |-> forceSensorName,
   surface_ |-> surfaceName, sensorAttachedToSurface_ |-> sensorAttachedToSurface,
   isSet_ |-> FALSE, wasAlreadySet_ |-> FALSE,
   sensorEnabled_ |-> TRUE, sensorWasEnabled_ |-> FALSE]

\* ContactWithoutSensor(int id, std::string name)
ContactWithoutSensor(id, name) ==
  [id_ |-> id, name_ |-> name, surface_ |-> name,
   isSet_ |-> FALSE, wasAlreadySet_ |-> FALSE]

\* resetContact that also puts back the default of sensorAttachedToSurface_
resetContactWithSensor_resetsAttachment(c) ==
  [c EXCEPT !.wasAlreadySet_ = FALSE, !.isSet_ = FALSE, !.sensorWasEnabled_ = FALSE,
            !.sensorAttachedToSurface_ = TRUE]

\* ContactWithSensor::resetContact
resetContactWithSensor(c) ==
  [c EXCEPT !.wasAlreadySet_ = FALSE, !.isSet_ = FALSE, !.sensorWasEnabled_ = FALSE]

\* Contact::resetContact
resetContactWithoutSensor(c) ==
  [c EXCEPT !.wasAlreadySet_ = FALSE, !.isSet_ = FALSE]

(***************************************************************************)
(* std::map / std::vector primitives                                       *)
(***************************************************************************)
EmptyMap == <<>>

\* std::map::insert : does nothing when the key is already present
MapInsert(map, k, v) == IF k \in DOMAIN map THEN map ELSE map @@ (k :> v)

\* std::map::at / std::vector::at : throws std::out_of_range
Ok(v) == [failure |-> "none", value |-> v]
Fail(f) == [failure |-> f, value |-> NoValue]
MapAt(map, k) == IF k \in DOMAIN map THEN Ok(map[k]) ELSE Fail("out_of_range")

InList(list, name) == \E i \in 1..Len(list) : list[i] = name

\* MapContacts() : state of a freshly constructed registry
NewMapContacts ==
  [hasSensor_ |-> EmptyMap, mapContactsWithSensors_ |-> EmptyMap,
   mapContactsWithoutSensors_ |-> EmptyMap, insertOrder_ |-> <<>>, num_ |-> 0]

(***************************************************************************)
(* MapContacts : queries.  Each returns [failure, value].                  *)
(***************************************************************************)
\* checkAlreadyExists(const std::string & name, const bool hasSensor)
checkAlreadyExists(m, name, sensorFlag) ==
  IF InList(m.insertOrder_, name)
  THEN IF assertsEnabled
       THEN LET h == MapAt(m.hasSensor_, name)
            IN IF h.failure # "none" THEN Fail(h.failure)
               ELSE IF h.value # sensorFlag THEN Fail("assertion")
               ELSE Ok(TRUE)
       ELSE Ok(TRUE)
  ELSE Ok(FALSE)

\* hasElement(element)
hasElement(m, element) == element \in DOMAIN m.hasSensor_

\* hasSensor(element)
hasSensor(m, element) ==
  IF assertsEnabled /\ ~hasElement(m, element) THEN Fail("assertion")
  ELSE MapAt(m.hasSensor_, element)

\* getNameFromNum(num) : insertOrder_.at(num), 0-based
getNameFromNum(m, num) ==
  IF num >= 0 /\ num < Len(m.insertOrder_) THEN Ok(m.insertOrder_[num + 1])
  ELSE Fail("out_of_range")

\* getNumFromName(name)
getNumFromName(m, name) ==
  LET h == MapAt(m.hasSensor_, name)
  IN IF h.failure # "none" THEN Fail(h.failure)
     ELSE IF h.value
          THEN LET c == MapAt(m.mapContactsWithSensors_, name)
               IN IF c.failure # "none" THEN Fail(c.failure) ELSE Ok(c.value.id_)
          ELSE LET c == MapAt(m.mapContactsWithoutSensors_, name)
               IN IF c.failure # "none" THEN Fail(c.failure) ELSE Ok(c.value.id_)

\* contactWithSensor(const std::string & name)
contactWithSensor(m, name) ==
  LET a == IF assertsEnabled THEN checkAlreadyExists(m, name, TRUE) ELSE Ok(TRUE)
  IN IF a.failure # "none" THEN Fail(a.failure)
     ELSE IF ~a.value THEN Fail("assertion")
     ELSE MapAt(m.mapContactsWithSensors_, name)

\* contactWithSensor(const int & num)
contactWithSensorNum(m, num) ==
  IF assertsEnabled /\ ~(num >= 0 /\ num < m.num_) THEN Fail("assertion")
  ELSE LET n == getNameFromNum(m, num)
       IN IF n.failure # "none" THEN Fail(n.failure)
          ELSE LET a == IF assertsEnabled THEN checkAlreadyExists(m, n.value, TRUE) ELSE Ok(TRUE)
               IN IF a.failure # "none" THEN Fail(a.failure)
                  ELSE IF ~a.value THEN Fail("assertion")
                  ELSE MapAt(m.mapContactsWithSensors_, n.value)

\* contactWithoutSensor(const std::string & name)
contactWithoutSensor(m, name) ==
  LET a == IF assertsEnabled THEN checkAlreadyExists(m, name, FALSE) ELSE Ok(TRUE)
  IN IF a.failure # "none" THEN Fail(a.failure)
     ELSE IF ~a.value THEN Fail("assertion")
     ELSE MapAt(m.mapContactsWithoutSensors_, name)

\* contactWithoutSensor(const int & num)
contactWithoutSensorNum(m, num) ==
  IF assertsEnabled /\ ~(num >= 0 /\ num < m.num_) THEN Fail("assertion")
  ELSE LET n == getNameFromNum(m, num)
       IN IF n.failure # "none" THEN Fail(n.failure)
          ELSE LET a == IF assertsEnabled THEN checkAlreadyExists(m, n.value, TRUE) ELSE Ok(TRUE)
               IN IF a.failure # "none" THEN Fail(a.failure)
                  ELSE IF ~a.value THEN Fail("assertion")
                  ELSE MapAt(m.mapContactsWithoutSensors_, n.value)

\* checkAlreadyExists(bool sensorAttachedToSurface, const std::string & name)
checkAlreadyExistsSurface(m, sensorAttachedToSurface, name) ==
  IF InList(m.insertOrder_, name)
  THEN IF assertsEnabled
       THEN LET h == MapAt(m.hasSensor_, name)
            IN IF h.failure # "none" THEN Fail(h.failure)
               ELSE IF ~h.value THEN Fail("assertion")
               ELSE LET c == contactWithSensor(m, name)
                    IN IF c.failure # "none" THEN Fail(c.failure)
                       ELSE IF c.value.sensorAttachedToSurface_ # sensorAttachedToSurface
                            THEN Fail("assertion")
                            ELSE Ok(TRUE)
       ELSE Ok(TRUE)
  ELSE Ok(FALSE)

(***************************************************************************)
(* MapContacts : insertion.  Each returns [failure, m] with the new        *)
(* registry.                                                               *)
(***************************************************************************)
\* insertElement that puts the new name at the front of the list
insertElement_prepend(m, name, sensorFlag) ==
  IF sensorFlag
  THEN [m EXCEPT !.insertOrder_ = <<name>> \o @,
                 !.mapContactsWithSensors_ = MapInsert(@, name, ContactWithSensor(m.num_, name)),
                 !.hasSensor_ = MapInsert(@, name, TRUE)]
  ELSE [m EXCEPT !.insertOrder_ = <<name>> \o @,
                 !.mapContactsWithoutSensors_ = MapInsert(@, name, ContactWithoutSensor(m.num_, name)),
                 !.hasSensor_ = MapInsert(@, name, TRUE)]

\* insertElement(const std::string & name, const bool & hasSensor)
insertElement(m, name, sensorFlag) ==
  IF sensorFlag
  THEN [m EXCEPT !.insertOrder_ = Append(@, name),
                 !.mapContactsWithSensors_ = MapInsert(@, name, ContactWithSensor(m.num_, name)),
                 !.hasSensor_ = MapInsert(@, name, TRUE)]
  ELSE [m EXCEPT !.insertOrder_ = Append(@, name),
                 !.mapContactsWithoutSensors_ = MapInsert(@, name, ContactWithoutSensor(m.num_, name)),
                 !.hasSensor_ = MapInsert(@, name, TRUE)]

\* insertElement(forceSensorName, surface, sensorAttachedToSurface)
insertElementSurface(m, forceSensorName, surface, sensorAttachedToSurface) ==
  [m EXCEPT !.insertOrder_ = Append(@, surface),
            !.mapContactsWithSensors_ =
               MapInsert(@, surface,
                         ContactWithSensorSurface(m.num_, forceSensorName, surface,
                                                  sensorAttachedToSurface)),
            !.hasSensor_ = MapInsert(@, surface, TRUE)]

\* insertContact(const std::string & name, const bool & hasSensor)
insertContact(m, name, sensorFlag) ==
  LET c == checkAlreadyExists(m, name, sensorFlag)
  IN IF c.failure # "none" THEN [failure |-> c.failure, m |-> m]
     ELSE IF c.value THEN [failure |-> "none", m |-> m]
     ELSE [failure |-> "none",
           m |-> [insertElement(m, name, sensorFlag) EXCEPT !.num_ = @ + 1]]

\* insertContact (sensor and surface) that forgets to increment num_
insertContactSurface_noIncrement(m, forceSensorName, surface, sensorAttachedToSurface) ==
  LET c == checkAlreadyExistsSurface(m, sensorAttachedToSurface, surface)
  IN IF c.failure # "none" THEN [failure |-> c.failure, m |-> m]
     ELSE IF c.value THEN [failure |-> "none", m |-> m]
     ELSE [failure |-> "none",
           m |-> insertElementSurface(m, forceSensorName, surface, sensorAttachedToSurface)]

\* insertContact(forceSensorName, surface, sensorAttachedToSurface)
insertContactSurface(m, forceSensorName, surface, sensorAttachedToSurface) ==
  LET c == checkAlreadyExistsSurface(m, sensorAttachedToSurface, surface)
  IN IF c.failure # "none" THEN [failure |-> c.failure, m |-> m]
     ELSE IF c.value THEN [failure |-> "none", m |-> m]
     ELSE [failure |-> "none",
           m |-> [insertElementSurface(m, forceSensorName, surface, sensorAttachedToSurface)
                    EXCEPT !.num_ = @ + 1]]

(***************************************************************************)
(* Initial state                                                           *)
(***************************************************************************)
\* ContactObserver : contactManager has no initialiser (indeterminate pointer);
\* ContactDetector : detectionAlgo_ is an empty string until configure;
\* MocapVisualizer : contactsManager_ has no detection method until init.
NewDetectors ==
  [contactManager |-> "indeterminate", contactObserverConfigured |-> FALSE,
   detectionAlgo_ |-> "", contactDetectorConfigured |-> FALSE,
   contactsDetection |-> "Undefined", mocapVisualizerConfigured |-> FALSE]

\* no Configuration object has been constructed yet
NoConfiguration == [built |-> FALSE]

\* ids of the contacts known to the contacts manager of the legged odometry; the
\* contact of id 3 is at a hand
LoIds == 0..3
HandIds == {3}

\* LoContactWithSensor : isSet_, useForOrientation_ and forceNorm_ (unit 1 N) as
\* initialised by the class; hand says that the contact is at a hand
NewLoContacts ==
  [id \in LoIds |-> [isSet_ |-> FALSE, useForOrientation_ |-> FALSE,
                     forceNorm_ |-> 0, hand |-> id \in HandIds]]

\* LeggedOdometryManager(odometryName) : the member initialisers of the structure;
\* odometryType_ has none and is set by init.  fbPose_ keeps its height only
\* (unit 1 cm); contactsFound is the set of contacts found by the last cycle
NewOdometry ==
  [initialised |-> FALSE, odometryType_ |-> "indeterminate", fbPose_ |-> [z |-> 0],
   contactsFound |-> {}, worldAnchorPose_ |-> "unset",
   prevAnchorFromContacts_ |-> TRUE, currAnchorFromContacts_ |-> TRUE,
   anchorFrameMethodChanged_ |-> FALSE]

\* body sensors of the robot, in the order of robot.bodySensors(); the body sensor
\* that robot.bodySensor() gives without a name is the first of them
BodySensors == <<"Accelerometer", "ChestIMU">>
defaultBodySensor == BodySensors[1]

\* lists that the entry imuSensor of the configuration can give to IMUs_
IMUConfigurations ==
  {<<"Accelerometer">>, <<"ChestIMU">>, <<"Accelerometer", "ChestIMU">>,
   <<"ChestIMU", "Accelerometer">>}

\* MapIMUs() : state of a freshly constructed registry of IMUs
NewMapIMUs == [insertOrder_ |-> <<>>, mapIMUs_ |-> EmptyMap, num_ |-> 0]

\* pose of the floating base before any estimate is committed
IdentityPose == [estimate |-> "Identity"]

\* state after construction and configure, IMUs_ being the list imus
InitWith(imus) ==
  /\ assertsEnabled \in BOOLEAN
  /\ mapContacts_ = NewMapContacts
  /\ lastCall = [op |-> "construct"]
  /\ ret = NoValue
  /\ failure = "none"
  /\ withContactsDetection_ \in BOOLEAN
  /\ my_robots_ = "null"
  /\ simStarted_ = FALSE
  /\ contactsFound_ = {}
  /\ oldContacts_ = {}
  /\ diffs = {}
  /\ isExternalWrench_ = EmptyMap
  /\ observerContacts = {}
  /\ detectors = NewDetectors
  /\ odomConfig = NoConfiguration
  /\ loContacts = NewLoContacts
  /\ oriOdometryContacts_ = <<>>
  /\ IMUs_ = imus
  /\ mapIMUs_ = NewMapIMUs
  /\ X_0_fb_ = IdentityPose
  /\ logger = {}
  /\ odometry = NewOdometry

\* configure without the entry imuSensor : IMUs_ is robot.bodySensors()
Init == InitWith(BodySensors)

\* configure with the entry imuSensor
InitTracking == \E imus \in IMUConfigurations : InitWith(imus)

InitRegistry == Init /\ ~withContactsDetection_

Running == failure = "none"

\* bound on the number of contacts registered through the API
MaxContacts == 3
MayInsert(name) ==
  mapContacts_.num_ < MaxContacts \/ InList(mapContacts_.insertOrder_, name)

InsertContactIn(S) ==
  \E name \in S, h \in BOOLEAN :
    LET r == insertContact(mapContacts_, name, h)
    IN /\ Running
       /\ MayInsert(name)
       /\ lastCall' = [op |-> "insertContact", name |-> name, hasSensor |-> h]
       /\ mapContacts_' = r.m
       /\ failure' = r.failure
       /\ ret' = NoValue
       /\ UNCHANGED <<assertsEnabled, observerVars, pipelineVars>>

InsertContactSurfaceIn(S) ==
  \E fs \in ForceSensors, surface \in S, att \in BOOLEAN :
    LET r == insertContactSurface(mapContacts_, fs, surface, att)
    IN /\ Running
       /\ MayInsert(surface)
       /\ lastCall' = [op |-> "insertContactSurface", forceSensorName |-> fs,
                       name |-> surface, sensorAttachedToSurface |-> att]
       /\ mapContacts_' = r.m
       /\ failure' = r.failure
       /\ ret' = NoValue
       /\ UNCHANGED <<assertsEnabled, observerVars, pipelineVars>>

\* resetContact() on the record returned by contactWithSensor(name) / contactWithoutSensor(name)
ResetContactIn(S) ==
  \E name \in S :
    /\ Running
    /\ \/ /\ name \in DOMAIN mapContacts_.mapContactsWithSensors_
          /\ LET c == contactWithSensor(mapContacts_, name)
             IN /\ failure' = c.failure
                /\ mapContacts_' =
                     IF c.failure # "none" THEN mapContacts_
                     ELSE [mapContacts_ EXCEPT !.mapContactsWithSensors_[name] =
                                                   resetContactWithSensor(c.value)]
       \/ /\ name \in DOMAIN mapContacts_.mapContactsWithoutSensors_
          /\ LET c == contactWithoutSensor(mapContacts_, name)
             IN /\ failure' = c.failure
                /\ mapContacts_' =
                     IF c.failure # "none" THEN mapContacts_
                     ELSE [mapContacts_ EXCEPT !.mapContactsWithoutSensors_[name] =
                                                   resetContactWithoutSensor(c.value)]
    /\ lastCall' = [op |-> "resetContact", name |-> name]
    /\ ret' = NoValue
    /\ UNCHANGED <<assertsEnabled, observerVars, pipelineVars>>

Query(call, r) ==
  /\ Running
  /\ lastCall' = call
  /\ ret' = r.value
  /\ failure' = r.failure
  /\ UNCHANGED <<assertsEnabled, mapContacts_, observerVars, pipelineVars>>

\* indices asked to the registry
MaxNum == 3
Nums == 0..MaxNum

GetNumFromName ==
  \E name \in Names :
    Query([op |-> "getNumFromName", name |-> name], getNumFromName(mapContacts_, name))

GetNameFromNum ==
  \E num \in Nums :
    Query([op |-> "getNameFromNum", num |-> num], getNameFromNum(mapContacts_, num))

HasSensor ==
  \E name \in Names :
    Query([op |-> "hasSensor", name |-> name], hasSensor(mapContacts_, name))

GetContactWithSensor ==
  \E name \in Names :
    Query([op |-> "contactWithSensor", name |-> name], contactWithSensor(mapContacts_, name))

GetContactWithSensorNum ==
  \E num \in Nums :
    Query([op |-> "contactWithSensorNum", num |-> num], contactWithSensorNum(mapContacts_, num))

GetContactWithoutSensor ==
  \E name \in Names :
    Query([op |-> "contactWithoutSensor", name |-> name], contactWithoutSensor(mapContacts_, name))

GetContactWithoutSensorNum ==
  \E num \in Nums :
    Query([op |-> "contactWithoutSensorNum", num |-> num],
          contactWithoutSensorNum(mapContacts_, num))

InsertContact == InsertContactIn(Names)
InsertContactSurface == InsertContactSurfaceIn(Surfaces)
ResetContact == ResetContactIn(Names)

NextRegistry ==
  \/ InsertContact
  \/ InsertContactSurface
  \/ ResetContact
  \/ GetNumFromName
  \/ GetNameFromNum
  \/ HasSensor
  \/ GetContactWithSensor
  \/ GetContactWithSensorNum
  \/ GetContactWithoutSensor
  \/ GetContactWithoutSensorNum

SpecRegistry == InitRegistry /\ [][NextRegistry]_vars

(***************************************************************************)
(* MCKineticsObserver : contact detection cycle                            *)
(***************************************************************************)
\* so::cst::gravityConstant, in cm/s^2.  Forces are in units of 1e-4 N.
gravityConstant == 981
\* proportion of the weight used as threshold, in percent
ThresholdProportion == 30
SolverThresholdProportion == 5

\* measRobot.mass() * so::cst::gravityConstant * proportion
contactDetectionThreshold(proportion) == RobotMass * gravityConstant * proportion

\* force sensor attached (possibly indirectly) to a surface of the robot
indirectSurfaceForceSensor(surface) == IF surface = "sA" THEN "fsL" ELSE "fsR"

\* Contacts the solver can hold.  side: which of r1 / r2 is the observed robot;
\* otherFixed: the other robot has a fixed base; surface: the surface of the
\* observed robot.
SolverContactUniverse ==
  [side : {"r1", "r2"}, otherFixed : {TRUE}, surface : Surfaces]
    \cup [side : {"r1"}, otherFixed : {FALSE}, surface : Surfaces]
    \cup [side : {"none"}, otherFixed : {TRUE}, surface : Surfaces]

\* readings of a cycle in force-threshold detection: the z force of each sensor
ForceReadings ==
  [ForceSensors -> { contactDetectionThreshold(ThresholdProportion) - 1,
                     contactDetectionThreshold(ThresholdProportion),
                     contactDetectionThreshold(ThresholdProportion) + 1 }]

\* readings of a cycle in solver detection: the z forces and the solver's contacts
SolverForceReadings ==
  [ForceSensors -> { contactDetectionThreshold(SolverThresholdProportion),
                     contactDetectionThreshold(SolverThresholdProportion) + 1 }]
SolverContactSets ==
  {{}} \cup {{c} : c \in {u \in SolverContactUniverse : (u.side = "r2") = (u.surface = "sB")}}
       \cup {{[side |-> "r1", otherFixed |-> TRUE, surface |-> "sA"],
              [side |-> "r2", otherFixed |-> TRUE, surface |-> "sB"]}}

\* findContacts that forwards the contacts of the solver whatever the measured force
findContacts_forwardsSolver(force, solver) ==
  IF withContactsDetection_
  THEN { indirectSurfaceForceSensor(contact.surface) :
           contact \in { c \in solver : c.side \in {"r1", "r2"} /\ c.otherFixed } }
  ELSE { fs \in ForceSensors : force[fs] > contactDetectionThreshold(ThresholdProportion) }

\* findContacts with a non-strict comparison in the force-threshold branch
findContacts_nonStrict(force, solver) ==
  IF withContactsDetection_
  THEN { indirectSurfaceForceSensor(contact.surface) :
           contact \in { c \in solver :
                           /\ c.side \in {"r1", "r2"}
                           /\ c.otherFixed
                           /\ force[indirectSurfaceForceSensor(c.surface)]
                                > contactDetectionThreshold(SolverThresholdProportion) } }
  ELSE { fs \in ForceSensors : force[fs] >= contactDetectionThreshold(ThresholdProportion) }

\* findContacts : the set contactsFound_
findContacts(force, solver) ==
  IF withContactsDetection_
  THEN { indirectSurfaceForceSensor(contact.surface) :
           contact \in { c \in solver :
                           /\ c.side \in {"r1", "r2"}
                           /\ c.otherFixed
                           /\ force[indirectSurfaceForceSensor(c.surface)]
                                > contactDetectionThreshold(SolverThresholdProportion) } }
  ELSE { fs \in ForceSensors : force[fs] > contactDetectionThreshold(ThresholdProportion) }

\* inputAdditionalWrench that leaves the flags as findContacts has set them
inputAdditionalWrench_keepsFlags(isExternal) ==
  [summed |-> { fs \in ForceSensors : isExternal[fs] },
   isExternalWrench |-> isExternal]

\* inputAdditionalWrench : sensors whose wrench is summed, and the flags afterwards
inputAdditionalWrench(isExternal) ==
  [summed |-> { fs \in ForceSensors : isExternal[fs] },
   isExternalWrench |-> [fs \in ForceSensors |-> TRUE]]

\* mapContacts_.insertPair(name) : registers the force sensor name on first sight
insertPair(m, name) == insertContact(m, name, TRUE)

\* prefixes of the names of the log entries of a contact: the entries that
\* addContactLogEntries registers (lines 1119-1347) and those that
\* removeContactLogEntries removes (lines 1356-1404).  An entry of the logger is
\* the pair of the prefix and of the name of the contact; the suffixes added and
\* removed under a common prefix are the same
AddedContactLogPrefixes ==
  {"_globalWorldCentroidState_contact_", "_stateCovariances_contact_",
   "_predictedGlobalCentroidKinematics_contact_", "_innovation_contact_",
   "_measurements_contacts_force_", "_measurements_contacts_torque_",
   "_debug_contactWrench_World_", "_debug_contactWrench_Centroid_",
   "_debug_contactPose_"}
RemovedContactLogPrefixes ==
  {"_globalWorldCentroidState_contact_", "_stateCovariances_contact_",
   "_predictedGlobalCentroidKinematics_contact_", "_innovation_contact_",
   "_measurements_contacts_force_", "_measurements_contacts_torque_",
   "_contactWrench_World_", "_contactWrench_Centroid_"}

\* addContactLogEntries(logger, numContact); alreadyLogged collects the names
\* given to addLogEntry while the logger holds them
addContactLogEntries(st, numContact) ==
  IF numContact \notin st.observerContacts THEN st
  ELSE LET n == getNameFromNum(st.m, numContact)
           entries == {<<prefix, n.value>> : prefix \in AddedContactLogPrefixes}
       IN IF n.failure # "none" THEN [st EXCEPT !.failure = n.failure]
          ELSE [st EXCEPT !.alreadyLogged = @ \cup (st.logger \cap entries),
                          !.logger = @ \cup entries]

\* removeContactLogEntries(logger, numContact)
removeContactLogEntries(st, numContact) ==
  LET n == getNameFromNum(st.m, numContact)
  IN IF n.failure # "none" THEN [st EXCEPT !.failure = n.failure]
     ELSE [st EXCEPT !.logger = @ \ {<<prefix, n.value>> : prefix \in RemovedContactLogPrefixes}]

\* initial covariance that ignores the contacts held by the filter
contactInitCovariance_alwaysFirst(numberOfContacts) == "contactInitCovarianceFirstContacts_"

\* lines 676-687 : the initial covariance given to addContact, from
\* observer_.getNumberOfContacts()
contactInitCovariance(numberOfContacts) ==
  IF numberOfContacts > 0 THEN "contactInitCovarianceNewContacts_"
  ELSE "contactInitCovarianceFirstContacts_"

\* updateContact that adds the contact to the filter in every cycle
updateContact_alwaysAdds(st, alreadySet, name) ==
  LET n == getNumFromName(st.m, name)
  IN IF n.failure # "none" THEN [st EXCEPT !.failure = n.failure]
     ELSE addContactLogEntries(
            [st EXCEPT
               !.observerContacts = @ \cup {n.value},
               !.calls = @ \o
                 << [op |-> "addContact", num |-> n.value,
                     covariance |-> contactInitCovariance(Cardinality(st.observerContacts))],
                    [op |-> "updateContactWithWrenchSensor", num |-> n.value] >>],
            n.value)

\* updateContact : lookup of the contact id, then updateContactWithWrenchSensor, after
\* addContact for a new contact, on observer_; calls collects the calls made on
\* observer_
updateContact(st, alreadySet, name) ==
  LET n == getNumFromName(st.m, name)
  IN IF n.failure # "none" THEN [st EXCEPT !.failure = n.failure]
     ELSE IF alreadySet
          THEN [st EXCEPT !.calls = Append(@, [op |-> "updateContactWithWrenchSensor",
                                               num |-> n.value])]
     ELSE addContactLogEntries(
            [st EXCEPT
               !.observerContacts = @ \cup {n.value},
               !.calls = @ \o
                 << [op |-> "addContact", num |-> n.value,
                     covariance |-> contactInitCovariance(Cardinality(st.observerContacts))],
                    [op |-> "updateContactWithWrenchSensor", num |-> n.value] >>],
            n.value)

\* first loop of updateContacts that looks a new contact up without inserting it
RECURSIVE updateContactsLoop_noInsert(_, _, _)
updateContactsLoop_noInsert(i, st, updatedContacts) ==
  IF i > Len(NameOrder) \/ st.failure # "none" THEN st
  ELSE IF NameOrder[i] \notin updatedContacts
       THEN updateContactsLoop_noInsert(i + 1, st, updatedContacts)
  ELSE updateContactsLoop_noInsert(
         i + 1, updateContact(st, NameOrder[i] \in oldContacts_, NameOrder[i]),
         updatedContacts)

\* updateContacts, first loop (lines 706-720), over the names in set order from position i
RECURSIVE updateContactsLoop(_, _, _)
updateContactsLoop(i, st, updatedContacts) ==
  IF i > Len(NameOrder) \/ st.failure # "none" THEN st
  ELSE IF NameOrder[i] \notin updatedContacts THEN updateContactsLoop(i + 1, st, updatedContacts)
  ELSE LET name == NameOrder[i]
           contactAlreadySet == name \in oldContacts_
           ins == IF contactAlreadySet THEN [failure |-> "none", m |-> st.m]
                  ELSE insertPair(st.m, name)
           st1 == [st EXCEPT !.failure = ins.failure, !.m = ins.m]
       IN IF st1.failure # "none" THEN st1
          ELSE updateContactsLoop(i + 1, updateContact(st1, contactAlreadySet, name),
                                  updatedContacts)

\* std::set_difference(oldContacts_, updatedContacts) (line 723)
setDifference(old, updated) == old \ updated

\* updateContacts, removal loop (lines 725-730)
RECURSIVE removeContactsLoop(_, _, _)
removeContactsLoop(i, st, removed) ==
  IF i > Len(NameOrder) \/ st.failure # "none" THEN st
  ELSE IF NameOrder[i] \notin removed THEN removeContactsLoop(i + 1, st, removed)
  ELSE LET n == getNumFromName(st.m, NameOrder[i])
       IN IF n.failure # "none" THEN [st EXCEPT !.failure = n.failure]
          ELSE removeContactsLoop(
                 i + 1,
                 removeContactLogEntries(
                   [st EXCEPT !.observerContacts = @ \ {n.value},
                              !.calls = Append(@, [op |-> "removeContact", num |-> n.value])],
                   n.value),
                 removed)

\* updateContacts(robot, inputRobot, updatedContacts, logger)
updateContacts(updatedContacts) ==
  LET st0 == [failure |-> "none", m |-> mapContacts_, observerContacts |-> observerContacts,
              oldContacts |-> oldContacts_, diffs |-> {}, calls |-> <<>>,
              logger |-> logger, alreadyLogged |-> {}]
      st1 == updateContactsLoop(1, st0, updatedContacts)
      removed == setDifference(oldContacts_, updatedContacts)
      st2 == removeContactsLoop(1, [st1 EXCEPT !.diffs = removed], removed)
  IN IF st1.failure # "none" THEN st1
     ELSE IF st2.failure # "none" THEN st2
     ELSE [st2 EXCEPT !.oldContacts = updatedContacts]

\* reset(ctl)
Reset ==
  /\ Running
  /\ simStarted_' = FALSE
  /\ isExternalWrench_' = [fs \in ForceSensors |-> TRUE]
  /\ my_robots_' = "set"
  /\ lastCall' = [op |-> "reset"]
  /\ ret' = NoValue
  /\ UNCHANGED <<assertsEnabled, mapContacts_, failure, withContactsDetection_,
                 contactsFound_, oldContacts_, diffs, observerContacts, estimatorVars,
                 pipelineVars>>

\* findContacts that starts the observation in every cycle with a contact
startsObservation_everyDetection(found) == found # {}

\* findContacts, lines 575-579 : the cycle starts the observation (simStarted_ = true,
\* initObserverStateVector)
startsObservation(found) == found # {} /\ ~simStarted_

\* MapIMUs::insertIMU(name)
insertIMU(m, name) ==
  IF name \in DOMAIN m.mapIMUs_ THEN m
  ELSE [m EXCEPT !.insertOrder_ = Append(@, name),
                 !.mapIMUs_ = @ @@ (name :> m.num_),
                 !.num_ = @ + 1]

\* mapIMUs_.insertPair(name) : registers the IMU on first sight
insertPairIMU(m, name) == insertIMU(m, name)

\* MapIMUs::getNumFromName(name), for a registered name
getNumFromNameIMU(m, name) == m.mapIMUs_[name]

\* MapIMUs::getNameFromNum(num) : insertOrder_.at(num), 0-based
getNameFromNumIMU(m, num) ==
  IF num >= 0 /\ num < Len(m.insertOrder_) THEN Ok(m.insertOrder_[num + 1])
  ELSE Fail("out_of_range")

\* updateIMUs, the loop from position i of IMUs_ : registration of the IMU, then
\* setIMU on observer_ with the acceleration and the angular velocity read on
\* measRobot.bodySensor() and the kinematics of the body sensor called imu.name()
RECURSIVE updateIMUsLoop(_, _, _)
updateIMUsLoop(i, st, imus) ==
  IF i > Len(imus) THEN st
  ELSE LET m == insertPairIMU(st.m, imus[i])
       IN updateIMUsLoop(
            i + 1,
            [m |-> m,
             calls |-> Append(st.calls,
                              [op |-> "setIMU", measurement |-> defaultBodySensor,
                               kinematics |-> imus[i],
                               num |-> getNumFromNameIMU(m, imus[i])])],
            imus)

\* updateIMUs(measRobot, inputRobot)
updateIMUs(imus) == updateIMUsLoop(1, [m |-> mapIMUs_, calls |-> <<>>], imus)

\* indices given to mapIMUs_.getNameFromNum once the filter is updated (lines
\* 306-378, and 919-952 in the first cycle of an observation)
IMUIndicesRead == {0, 1}

\* outcome of these lookups
readIMUNames(m) ==
  IF \A num \in IMUIndicesRead : getNameFromNumIMU(m, num).failure = "none" THEN "none"
  ELSE "out_of_range"

\* lines 364-367 : the estimate of the pose of the floating base that the filter
\* gives once updated with the contacts it holds
floatingBasePose(contacts) == [estimate |-> "observer_", contacts |-> contacts]

\* cycle that commits no estimate while no contact is held by the filter
poseAfterCycle_holdsWithoutContact(started, pose, contacts) ==
  IF ~started \/ contacts = {} THEN pose ELSE floatingBasePose(contacts)

\* the pose committed at the end of a cycle : a cycle that has not started the
\* observation returns at line 233, before the filter is used
poseAfterCycle(started, pose, contacts) ==
  IF ~started THEN pose ELSE floatingBasePose(contacts)

\* run(ctl) : one control cycle with the given sensor readings.  lastCall records
\* the calls made on observer_ : setInitWorldCentroidStateVector, update() and, in
\* calls, those for the contacts and the IMUs.
RunWith(force, solver) ==
  \E found \in {findContacts(force, solver)} :
  \E upd \in {updateContacts(found)}, imus \in {updateIMUs(IMUs_)} :
  LET flagged == [fs \in ForceSensors |-> IF fs \in found THEN FALSE ELSE isExternalWrench_[fs]]
      wrench == inputAdditionalWrench(flagged)
      started == simStarted_ \/ startsObservation(found)
      updated == started /\ upd.failure = "none"
      failed == IF ~started THEN "none"
                ELSE IF upd.failure # "none" THEN upd.failure
                ELSE readIMUNames(imus.m)
  IN /\ Running
     /\ my_robots_ = "set"
     /\ lastCall' = [op |-> "run", force |-> force, solver |-> solver,
                     additionalWrench |-> wrench.summed,
                     initStateVector |-> startsObservation(found),
                     update |-> updated,
                     calls |-> IF ~started THEN <<>>
                               ELSE IF ~updated THEN upd.calls
                               ELSE upd.calls \o imus.calls,
                     alreadyLogged |-> IF started THEN upd.alreadyLogged ELSE {}]
     /\ contactsFound_' = found
     /\ isExternalWrench_' = wrench.isExternalWrench
     /\ simStarted_' = started
     /\ failure' = failed
     /\ ret' = IF failed = "none" THEN TRUE ELSE NoValue
     /\ IF ~started
        THEN /\ diffs' = {}
             /\ UNCHANGED <<mapContacts_, oldContacts_, observerContacts, mapIMUs_, logger>>
        ELSE /\ mapContacts_' = upd.m
             /\ observerContacts' = upd.observerContacts
             /\ oldContacts_' = upd.oldContacts
             /\ diffs' = upd.diffs
             /\ logger' = upd.logger
             /\ mapIMUs_' = IF updated THEN imus.m ELSE mapIMUs_
     /\ X_0_fb_' = IF failed = "none"
                   THEN poseAfterCycle(started, X_0_fb_, upd.observerContacts)
                   ELSE X_0_fb_
     /\ UNCHANGED <<assertsEnabled, withContactsDetection_, my_robots_, IMUs_, pipelineVars>>

Run ==
  \/ /\ ~withContactsDetection_
     /\ \E force \in ForceReadings : RunWith(force, {})
  \/ /\ withContactsDetection_
     /\ \E force \in SolverForceReadings, solver \in SolverContactSets :
          RunWith(force, solver)

\* Names the host registers by hand in the registry of the observer
HostNames == {"fsL", "sA"}

RegisterContact == InsertContactIn({"fsL"})
RegisterContactSurface == InsertContactSurfaceIn({"sA"})
ResetRegistered == ResetContactIn(HostNames)

Next ==
  \/ RegisterContact
  \/ RegisterContactSurface
  \/ ResetRegistered
  \/ Reset
  \/ Run

Spec == Init /\ [][Next]_vars

(***************************************************************************)
(* MCKineticsObserver in its pipeline : the pipeline registers the entries *)
(* of the observer in the logger and removes them, around the cycles.      *)
(***************************************************************************)
\* names that addToLogger registers (lines 764-771) and names that removeFromLogger
\* removes (lines 776-780), after the category; they belong to no contact
ObserverLogEntries ==
  {<<name, "">> : name \in {"_mcko_fb_posW", "_mcko_fb_velW", "_mcko_fb_accW",
                            "_constants_mass", "_constants_flexStiffness",
                            "_constants_flexDamping"}}
RemovedObserverLogEntries ==
  {<<name, "">> : name \in {"_posW", "_velW", "_mass", "_flexStiffness", "_flexDamping"}}

LoggerCall(call, entries) ==
  /\ Running
  /\ lastCall' = call
  /\ logger' = entries
  /\ ret' = NoValue
  /\ UNCHANGED <<assertsEnabled, mapContacts_, failure, withContactsDetection_, my_robots_,
                 simStarted_, contactsFound_, oldContacts_, diffs, isExternalWrench_,
                 observerContacts, IMUs_, mapIMUs_, X_0_fb_, pipelineVars>>

\* addToLogger(ctl, logger, category)
AddToLogger ==
  LoggerCall([op |-> "addToLogger", alreadyLogged |-> logger \cap ObserverLogEntries],
             logger \cup ObserverLogEntries)

\* removeFromLogger(logger, category)
RemoveFromLogger ==
  LoggerCall([op |-> "removeFromLogger"], logger \ RemovedObserverLogEntries)

NextTracking ==
  \/ Reset
  \/ Run
  \/ AddToLogger
  \/ RemoveFromLogger

SpecTracking == InitTracking /\ [][NextTracking]_vars


(***************************************************************************)
(* Life cycle of the contact records : a record is marked when its contact *)
(* is detected in a cycle and reset by resetContact() in the cycle where   *)
(* the contact is removed.                                                 *)
(***************************************************************************)
\* the record of a detected contact : isSet_ says active in this cycle,
\* wasAlreadySet_ active in the previous one, sensorWasEnabled_ that the sensor
\* was in use in the previous one
setContact(c) ==
  IF "sensorEnabled_" \in DOMAIN c
  THEN [c EXCEPT !.isSet_ = TRUE, !.wasAlreadySet_ = c.isSet_,
                 !.sensorWasEnabled_ = c.isSet_ /\ c.sensorEnabled_]
  ELSE [c EXCEPT !.isSet_ = TRUE, !.wasAlreadySet_ = c.isSet_]

\* ContactWithSensor::resetContact that also puts back the default of sensorEnabled_
resetContact_enablesSensor(c) ==
  IF "sensorEnabled_" \in DOMAIN c
  THEN [c EXCEPT !.wasAlreadySet_ = FALSE, !.isSet_ = FALSE, !.sensorWasEnabled_ = FALSE,
                 !.sensorEnabled_ = TRUE]
  ELSE [c EXCEPT !.wasAlreadySet_ = FALSE, !.isSet_ = FALSE]

\* resetContact() of the class of the record
resetContact(c) ==
  IF "sensorEnabled_" \in DOMAIN c THEN resetContactWithSensor(c)
  ELSE resetContactWithoutSensor(c)

\* the registry with the record of a registered name replaced
withRecord(m, name, c) ==
  IF name \in DOMAIN m.mapContactsWithSensors_
  THEN [m EXCEPT !.mapContactsWithSensors_[name] = c]
  ELSE [m EXCEPT !.mapContactsWithoutSensors_[name] = c]

contactRecord(m, name) ==
  IF name \in DOMAIN m.mapContactsWithSensors_ THEN m.mapContactsWithSensors_[name]
  ELSE m.mapContactsWithoutSensors_[name]

contactNames(m) ==
  DOMAIN m.mapContactsWithSensors_ \cup DOMAIN m.mapContactsWithoutSensors_

LifecycleStep(call, m) ==
  /\ Running
  /\ lastCall' = call
  /\ mapContacts_' = m
  /\ ret' = NoValue
  /\ UNCHANGED <<assertsEnabled, failure, observerVars, pipelineVars>>

\* a cycle in which the contact is detected
DetectContact ==
  \E name \in contactNames(mapContacts_) :
    LifecycleStep([op |-> "detectContact", name |-> name],
                  withRecord(mapContacts_, name, setContact(contactRecord(mapContacts_, name))))

\* the first cycle in which a set contact is not detected any more
RemoveContact ==
  \E name \in contactNames(mapContacts_) :
    /\ contactRecord(mapContacts_, name).isSet_
    /\ LifecycleStep([op |-> "removeContact", name |-> name,
                      wasAlreadySet |-> contactRecord(mapContacts_, name).wasAlreadySet_],
                     withRecord(mapContacts_, name, resetContact(contactRecord(mapContacts_, name))))

\* sensorEnabled_ is a public member that the host switches
SwitchSensor ==
  \E name \in DOMAIN mapContacts_.mapContactsWithSensors_, b \in BOOLEAN :
    LifecycleStep([op |-> "sensorEnabled_", name |-> name, value |-> b],
                  [mapContacts_ EXCEPT !.mapContactsWithSensors_[name].sensorEnabled_ = b])

NextLifecycle ==
  \/ RegisterContact
  \/ RegisterContactSurface
  \/ DetectContact
  \/ RemoveContact
  \/ SwitchSensor

SpecLifecycle == InitRegistry /\ [][NextLifecycle]_vars

(***************************************************************************)
(* Contact detection observers : ContactObserver, ContactDetector and      *)
(* MocapVisualizer.  The pipeline calls configure once on each observer,   *)
(* stops on an exception, and calls run / update afterwards.               *)
(***************************************************************************)
\* strings found in the configuration file
KnownAlgos == {"Threshold", "SchmidtTrigger", "HMM"}
AlgoStrings == KnownAlgos \cup {"", "Kalman"}
KnownContactsDetections == {"Solver", "Surfaces", "Sensors"}
ContactsDetectionStrings == KnownContactsDetections \cup {"", "Kalman"}

pipelineOthers == <<odomConfig, loContacts, oriOdometryContacts_, odometry>>

\* ContactObserver::configure : algo = config("DetectionAlgorithm", ""), the
\* default "" standing for a missing key; the two error branches only hold a TODO
ContactObserverConfigure ==
  \E algo \in AlgoStrings :
    /\ Running
    /\ ~detectors.contactObserverConfigured
    /\ detectors' = [detectors EXCEPT
                       !.contactManager = IF algo \in KnownAlgos THEN algo ELSE @,
                       !.contactObserverConfigured = TRUE]
    /\ lastCall' = [op |-> "ContactObserver::configure", algo |-> algo]
    /\ ret' = NoValue
    /\ UNCHANGED <<assertsEnabled, mapContacts_, failure, observerVars, pipelineOthers>>

\* contactManager->run(ctl) / contactManager->update() : the call through an
\* indeterminate pointer is undefined, it may crash or go on
callContactManager(op) ==
  /\ Running
  /\ detectors.contactObserverConfigured
  /\ lastCall' = [op |-> op, contactManager |-> detectors.contactManager]
  /\ IF detectors.contactManager = "indeterminate"
     THEN failure' \in {"none", "crash"}
     ELSE failure' = "none"
  /\ ret' = NoValue
  /\ UNCHANGED <<assertsEnabled, mapContacts_, observerVars, pipelineVars>>

\* ContactObserver::run
ContactObserverRun == callContactManager("ContactObserver::run")

\* ContactObserver::update
ContactObserverUpdate == callContactManager("ContactObserver::update")

\* ContactDetector::configure : config("detectionAlgo") throws when the key is
\* missing, any string is stored
ContactDetectorConfigure ==
  \E present \in BOOLEAN, algo \in AlgoStrings :
    /\ Running
    /\ ~detectors.contactDetectorConfigured
    /\ present \/ algo = ""
    /\ lastCall' = [op |-> "ContactDetector::configure", present |-> present, algo |-> algo]
    /\ IF present
       THEN /\ detectors' = [detectors EXCEPT !.detectionAlgo_ = algo,
                                              !.contactDetectorConfigured = TRUE]
            /\ failure' = "none"
       ELSE /\ failure' = "configuration_exception"
            /\ UNCHANGED detectors
    /\ ret' = NoValue
    /\ UNCHANGED <<assertsEnabled, mapContacts_, observerVars, pipelineOthers>>

\* ContactDetector::run : empty body of a function returning bool, the value
\* returned is undefined
ContactDetectorRun ==
  /\ Running
  /\ detectors.contactDetectorConfigured
  /\ lastCall' = [op |-> "ContactDetector::run", detectionAlgo_ |-> detectors.detectionAlgo_]
  /\ ret' \in BOOLEAN
  /\ UNCHANGED <<assertsEnabled, mapContacts_, failure, observerVars, pipelineVars>>

\* contactsManager_.stringToContactsDetection(str, observerName_)
stringToContactsDetection(str) ==
  IF str \in KnownContactsDetections THEN Ok(str) ELSE Fail("runtime_error")

\* MocapVisualizer::configure : config("contactsDetection") throws when the key is
\* missing, then the string is converted and the contacts manager initialised
MocapVisualizerConfigure ==
  \E present \in BOOLEAN, str \in ContactsDetectionStrings :
    /\ Running
    /\ ~detectors.mocapVisualizerConfigured
    /\ present \/ str = ""
    /\ lastCall' = [op |-> "MocapVisualizer::configure", present |-> present, str |-> str]
    /\ LET method == stringToContactsDetection(str)
       IN IF ~present
          THEN /\ failure' = "configuration_exception"
               /\ UNCHANGED detectors
          ELSE IF method.failure # "none"
          THEN /\ failure' = method.failure
               /\ UNCHANGED detectors
          ELSE /\ failure' = "none"
               /\ detectors' = [detectors EXCEPT !.contactsDetection = method.value,
                                                 !.mocapVisualizerConfigured = TRUE]
    /\ ret' = NoValue
    /\ UNCHANGED <<assertsEnabled, mapContacts_, observerVars, pipelineOthers>>

\* MocapVisualizer::run : the contacts are updated with the method chosen at configure
MocapVisualizerRun ==
  /\ Running
  /\ detectors.mocapVisualizerConfigured
  /\ lastCall' = [op |-> "MocapVisualizer::run", contactsDetection |-> detectors.contactsDetection]
  /\ ret' = TRUE
  /\ UNCHANGED <<assertsEnabled, mapContacts_, failure, observerVars, pipelineVars>>

NextDetectors ==
  \/ ContactObserverConfigure
  \/ ContactObserverRun
  \/ ContactObserverUpdate
  \/ ContactDetectorConfigure
  \/ ContactDetectorRun
  \/ MocapVisualizerConfigure
  \/ MocapVisualizerRun

SpecDetectors == Init /\ [][NextDetectors]_vars

(***************************************************************************)
(* LeggedOdometryManager::Configuration.  The constructors and setters are *)
(* noexcept : an exception thrown inside ends the program (std::terminate).*)
(***************************************************************************)
\* enumerators
OdometryType(name) == [enum |-> "OdometryType", enumerator |-> name]
VelocityUpdate(name) == [enum |-> "VelocityUpdate", enumerator |-> name]
OdometryTypes == {OdometryType(n) : n \in {"Odometry6d", "Flat", "None"}}
VelocityUpdates == {VelocityUpdate(n) : n \in {"NoUpdate", "FiniteDiff", "FromUpstream"}}

\* strings found in the configuration file
OdometryTypeStrings == {"Odometry6d", "Flat", "None", "", "flat"}
VelocityUpdateStrings == {"NoUpdate", "FiniteDiff", "FromUpstream", "", "finiteDiff"}

\* strToVelocityUpdate_
strToVelocityUpdate_ ==
  ("FiniteDiff" :> VelocityUpdate("FiniteDiff"))
    @@ ("FromUpstream" :> VelocityUpdate("FromUpstream"))
    @@ ("NoUpdate" :> VelocityUpdate("NoUpdate"))

\* measurements::stringToOdometryType(str, odometryName)
stringToOdometryType(str) ==
  IF str \in {"Odometry6d", "Flat", "None"} THEN Ok(OdometryType(str))
  ELSE Fail("runtime_error")

\* stringToVelocityUpdate that falls back on NoUpdate for an unknown string
stringToVelocityUpdate_fallback(str) ==
  IF str \in DOMAIN strToVelocityUpdate_ THEN Ok(strToVelocityUpdate_[str])
  ELSE Ok(VelocityUpdate("NoUpdate"))

\* stringToVelocityUpdate(str, odometryName)
stringToVelocityUpdate(str) ==
  IF str \in DOMAIN strToVelocityUpdate_ THEN Ok(strToVelocityUpdate_[str])
  ELSE Fail("runtime_error")

\* an exception that leaves a noexcept function
noexceptFailure(f) == IF f = "none" THEN "none" ELSE "terminate"

\* Configuration with the member initialisers of the structure
NewConfiguration(odometryType) ==
  [built |-> TRUE, odometryType_ |-> odometryType, withYaw_ |-> TRUE,
   withModeSwitchInGui_ |-> FALSE, velocityUpdate_ |-> VelocityUpdate("NoUpdate")]

ConfigurationCall(call, f, config) ==
  /\ Running
  /\ lastCall' = call
  /\ failure' = noexceptFailure(f)
  /\ odomConfig' = IF f = "none" THEN config ELSE odomConfig
  /\ ret' = NoValue
  /\ UNCHANGED <<assertsEnabled, mapContacts_, observerVars, detectors, loContacts,
                 oriOdometryContacts_, odometry>>

\* Configuration(robotName, odometryName, odometryTypeString)
ConfigurationFromString ==
  \E str \in OdometryTypeStrings :
    LET t == stringToOdometryType(str)
        f == IF t.failure # "none" THEN t.failure
             ELSE IF t.value # OdometryType("Flat") /\ t.value # OdometryType("Odometry6d")
                  THEN "runtime_error"
                  ELSE "none"
    IN /\ ~odomConfig.built
       /\ ConfigurationCall([op |-> "Configuration", odometryTypeString |-> str], f,
                            NewConfiguration(t.value))

\* Configuration(robotName, odometryName, odometryType)
ConfigurationFromType ==
  \E t \in OdometryTypes :
    /\ ~odomConfig.built
    /\ ConfigurationCall([op |-> "Configuration", odometryType |-> t], "none",
                         NewConfiguration(t))

\* withModeSwitchInGui(bool)
WithModeSwitchInGui ==
  \E b \in BOOLEAN :
    /\ odomConfig.built
    /\ ConfigurationCall([op |-> "withModeSwitchInGui", value |-> b], "none",
                         [odomConfig EXCEPT !.withModeSwitchInGui_ = b])

\* withYawEstimation(bool)
WithYawEstimation ==
  \E b \in BOOLEAN :
    /\ odomConfig.built
    /\ ConfigurationCall([op |-> "withYawEstimation", value |-> b], "none",
                         [odomConfig EXCEPT !.withYaw_ = b])

\* velocityUpdate(VelocityUpdate)
VelocityUpdateFromValue ==
  \E v \in VelocityUpdates :
    /\ odomConfig.built
    /\ ConfigurationCall([op |-> "velocityUpdate", velocityUpdate |-> v], "none",
                         [odomConfig EXCEPT !.velocityUpdate_ = v])

\* velocityUpdate(const std::string & str)
VelocityUpdateFromString ==
  \E str \in VelocityUpdateStrings :
    LET v == stringToVelocityUpdate(str)
    IN /\ odomConfig.built
       /\ ConfigurationCall([op |-> "velocityUpdate", str |-> str], v.failure,
                            [odomConfig EXCEPT !.velocityUpdate_ = v.value])

NextConfiguration ==
  \/ ConfigurationFromString
  \/ ConfigurationFromType
  \/ WithModeSwitchInGui
  \/ WithYawEstimation
  \/ VelocityUpdateFromValue
  \/ VelocityUpdateFromString

SpecConfiguration == Init /\ [][NextConfiguration]_vars

(***************************************************************************)
(* Orientation odometry of LeggedOdometryManager : the candidates are kept *)
(* in oriOdometryContacts_, a std::set ordered by sortByForce.             *)
(***************************************************************************)
\* sortByForce::operator()(contact1, contact2)
sortByForce(contacts, id1, id2) ==
  contacts[id1].forceNorm_ < contacts[id2].forceNorm_

\* std::set::insert : nothing is inserted when an element equivalent for the
\* comparison is present, else the element goes before the first one it precedes
setInsert(set, contacts, id) ==
  IF \E i \in 1..Len(set) :
       ~sortByForce(contacts, set[i], id) /\ ~sortByForce(contacts, id, set[i])
  THEN set
  ELSE LET before == Cardinality({i \in 1..Len(set) : sortByForce(contacts, set[i], id)})
       IN SubSeq(set, 1, before) \o <<id>> \o SubSeq(set, before + 1, Len(set))

\* a contact that may be used for the orientation odometry
eligible(c) == c.isSet_ /\ c.useForOrientation_ /\ ~c.hand

\* the candidates inserted in oriOdometryContacts_, iterating the contacts in the
\* given order from position i
RECURSIVE insertCandidates(_, _, _, _)
insertCandidates(i, set, contacts, order) ==
  IF i > Len(order) THEN set
  ELSE insertCandidates(i + 1,
                        IF eligible(contacts[order[i]])
                        THEN setInsert(set, contacts, order[i]) ELSE set,
                        contacts, order)

\* the contacts used : the (at most two) last ones of the set, those of highest force
twoHighest(set) ==
  {set[i] : i \in {j \in 1..Len(set) : j > Len(set) - 2}}

\* states of a contact in a cycle : not set, set but not to be used for the
\* orientation, or set and to be used with a force of 1, 2 or 3
LoForces == {1, 2, 3}
LoContactStates(id) ==
  IF id \in HandIds
  THEN {[isSet_ |-> TRUE, useForOrientation_ |-> TRUE, forceNorm_ |-> f, hand |-> TRUE] :
          f \in {1, 3}}
  ELSE {[isSet_ |-> FALSE, useForOrientation_ |-> FALSE, forceNorm_ |-> 0, hand |-> FALSE],
        [isSet_ |-> TRUE, useForOrientation_ |-> FALSE, forceNorm_ |-> 3, hand |-> FALSE]}
       \cup {[isSet_ |-> TRUE, useForOrientation_ |-> TRUE, forceNorm_ |-> f, hand |-> FALSE] :
               f \in LoForces}
LoContactsInputs == {c \in [LoIds -> UNION {LoContactStates(id) : id \in LoIds}] :
                       \A id \in LoIds : c[id] \in LoContactStates(id)}

\* orders in which the contacts manager iterates over the contacts
LoOrders == {<<0, 1, 2, 3>>, <<3, 2, 1, 0>>}

\* selectForOrientationOdometry, in a cycle that left the contacts in the given state
SelectForOrientationOdometry ==
  \E contacts \in LoContactsInputs, order \in LoOrders :
    LET set == insertCandidates(1, <<>>, contacts, order)
    IN /\ Running
       /\ loContacts' = contacts
       /\ oriOdometryContacts_' = set
       /\ lastCall' = [op |-> "selectForOrientationOdometry", order |-> order,
                       selected |-> twoHighest(set)]
       /\ ret' = (set # <<>>)
       /\ UNCHANGED <<assertsEnabled, mapContacts_, failure, observerVars, detectors,
                      odomConfig, odometry>>

NextOrientation == SelectForOrientationOdometry

SpecOrientation == Init /\ [][NextOrientation]_vars

(***************************************************************************)
(* LeggedOdometryManager : cycles of the legged odometry.  A cycle detects *)
(* the contacts, updates the pose of the floating base from them and       *)
(* commits it; the observer using the odometry then asks for the anchor    *)
(* frame.                                                                  *)
(***************************************************************************)
\* heights (z of a position) handled by the model, in units of 1 cm
MaxHeight == 2
Heights == 0..MaxHeight

\* contacts that the contacts manager of the odometry can detect
LegContacts == {0, 1}

\* body sensor frame given to getAnchorFramePose
AnchorBodySensor == "Accelerometer"

OdometryCall(call, o) ==
  /\ Running
  /\ lastCall' = call
  /\ odometry' = o
  /\ ret' = NoValue
  /\ UNCHANGED <<assertsEnabled, mapContacts_, failure, observerVars, detectors, odomConfig,
                 loContacts, oriOdometryContacts_>>

\* init(ctl, odomConfig, contactsConf) : the type of odometry of the configuration
OdometryInit ==
  \E t \in {OdometryType("Flat"), OdometryType("Odometry6d")} :
    /\ ~odometry.initialised
    /\ OdometryCall([op |-> "LeggedOdometryManager::init", odometryType |-> t],
                    [odometry EXCEPT !.initialised = TRUE, !.odometryType_ = t])

\* setOdometryType(newOdometryType)
SetOdometryType ==
  \E t \in {OdometryType("Flat"), OdometryType("Odometry6d")} :
    /\ odometry.initialised
    /\ OdometryCall([op |-> "setOdometryType", odometryType |-> t],
                    [odometry EXCEPT !.odometryType_ = t])

\* height committed by a cycle that keeps the height obtained from the contacts
\* whatever the type of odometry
committedHeight_fromContacts(odometryType, z, found, contactsZ, ctlZ) ==
  IF found # {} THEN contactsZ ELSE z

\* height committed by a cycle : with the flat odometry the one of the control
\* robot, else the one obtained from the contacts when a contact is active, else
\* the last estimate
committedHeight(odometryType, z, found, contactsZ, ctlZ) ==
  IF odometryType = OdometryType("Flat") THEN ctlZ
  ELSE IF found # {} THEN contactsZ
  ELSE z

\* source of the anchor frame : the contacts when one is active
anchorFromContacts(found) == found # {}

\* getAnchorFramePose that compares the source with the one of two calls before
anchorFrame_lateFlag(o, bodySensorName) ==
  LET curr == anchorFromContacts(o.contactsFound)
  IN [o EXCEPT !.worldAnchorPose_ = IF curr THEN "contacts" ELSE bodySensorName,
               !.prevAnchorFromContacts_ = o.currAnchorFromContacts_,
               !.currAnchorFromContacts_ = curr,
               !.anchorFrameMethodChanged_ = (curr # o.prevAnchorFromContacts_)]

\* getAnchorFramePose(ctl, bodySensorName)
anchorFrame(o, bodySensorName) ==
  LET curr == anchorFromContacts(o.contactsFound)
  IN [o EXCEPT !.worldAnchorPose_ = IF curr THEN "contacts" ELSE bodySensorName,
               !.prevAnchorFromContacts_ = o.currAnchorFromContacts_,
               !.currAnchorFromContacts_ = curr,
               !.anchorFrameMethodChanged_ = (curr # o.currAnchorFromContacts_)]

\* one cycle of the observer using the odometry : run(ctl, logger, pose, ...), then
\* getAnchorFramePose(ctl, bodySensorName).  found: the contacts detected in the
\* cycle; contactsZ: the height that the position odometry obtains from them;
\* ctlZ: the height of the floating base of the control robot
OdometryRun ==
  \E found \in SUBSET LegContacts, contactsZ \in Heights, ctlZ \in Heights :
    LET ran == [odometry EXCEPT
                  !.contactsFound = found,
                  !.fbPose_.z = committedHeight(odometry.odometryType_, @, found,
                                                contactsZ, ctlZ)]
    IN /\ odometry.initialised
       /\ OdometryCall([op |-> "LeggedOdometryManager::run", found |-> found,
                        created |-> found \ odometry.contactsFound,
                        removed |-> odometry.contactsFound \ found,
                        contactsZ |-> contactsZ, ctlZ |-> ctlZ],
                       anchorFrame(ran, AnchorBodySensor))

NextOdometry ==
  \/ OdometryInit
  \/ SetOdometryType
  \/ OdometryRun

SpecOdometry == Init /\ [][NextOdometry]_vars

(***************************************************************************)
(* Properties                                                              *)
(***************************************************************************)
Registered(m) == {m.insertOrder_[i] : i \in 1..Len(m.insertOrder_)}
SensorBound(m) == DOMAIN m.mapContactsWithSensors_
NotSensorBound(m) == DOMAIN m.mapContactsWithoutSensors_
\* the record stored for a registered name
RecordOf(m, name) ==
  IF name \in SensorBound(m) THEN m.mapContactsWithSensors_[name]
  ELSE m.mapContactsWithoutSensors_[name]
IsPrefix(s, t) == Len(s) <= Len(t) /\ \A i \in 1..Len(s) : s[i] = t[i]
CycleDone == lastCall.op = "run" /\ failure = "none"

\* C1: after each cycle the found set and the removed set are disjoint, and
\* every removed contact was in the found set of the previous cycle
\* (contactsFound_ before the cycle is the found set of the previous cycle).
C1_FoundRemoved ==
  [][ CycleDone' =>
        /\ diffs' \cap contactsFound_' = {}
        /\ diffs' \subseteq contactsFound_ ]_vars

\* C2: insertContact(name, hasSensor) for a name already registered with the same
\* hasSensor value raises no error and leaves the registry unchanged.
C2_ReinsertSameNoOp ==
  [][ ( /\ lastCall'.op = "insertContact"
        /\ lastCall'.name \in (IF lastCall'.hasSensor THEN SensorBound(mapContacts_)
                               ELSE NotSensorBound(mapContacts_)) )
      => (failure' = "none" /\ mapContacts_' = mapContacts_) ]_vars

\* C3: inserting a registered name with another association than the recorded one
\* fails and leaves the registry unchanged.
C3_ReinsertDifferentFails ==
  [][ /\ ( /\ lastCall'.op = "insertContact"
           /\ lastCall'.name \in (IF lastCall'.hasSensor THEN NotSensorBound(mapContacts_)
                                  ELSE SensorBound(mapContacts_)) )
         => (failure' # "none" /\ mapContacts_' = mapContacts_)
      /\ ( /\ lastCall'.op = "insertContactSurface"
           /\ \/ lastCall'.name \in NotSensorBound(mapContacts_)
              \/ /\ lastCall'.name \in SensorBound(mapContacts_)
                 /\ mapContacts_.mapContactsWithSensors_[lastCall'.name].sensorAttachedToSurface_
                      # lastCall'.sensorAttachedToSurface )
         => (failure' # "none" /\ mapContacts_' = mapContacts_) ]_vars

\* C4: the k-th distinct name inserted has id k-1, no two contacts share an id,
\* the id of a name never changes, and the id counter is the length of the list.
C4_IdsInOrder ==
  /\ [] ( /\ mapContacts_.num_ = Len(mapContacts_.insertOrder_)
          /\ \A k \in 1..Len(mapContacts_.insertOrder_) :
               /\ mapContacts_.insertOrder_[k] \in SensorBound(mapContacts_) \cup NotSensorBound(mapContacts_)
               /\ RecordOf(mapContacts_, mapContacts_.insertOrder_[k]).id_ = k - 1
          /\ \A a, b \in Registered(mapContacts_) :
               RecordOf(mapContacts_, a).id_ = RecordOf(mapContacts_, b).id_ => a = b )
  /\ [][ \A n \in Registered(mapContacts_) :
           /\ n \in Registered(mapContacts_')
           /\ RecordOf(mapContacts_', n).id_ = RecordOf(mapContacts_, n).id_ ]_vars

C4_Witness ==
  /\ Len(mapContacts_.insertOrder_) = 3
  /\ SensorBound(mapContacts_) # {} /\ NotSensorBound(mapContacts_) # {}
  /\ lastCall.op = "insertContactSurface" /\ failure = "none"
  /\ \E k \in 1..2 : mapContacts_.insertOrder_[k] = lastCall.name

\* C5: for every registered contact the index / name lookups succeed and are
\* inverse of each other.
C5_LookupsInverse ==
  /\ \A i \in 0..(mapContacts_.num_ - 1) :
       LET n == getNameFromNum(mapContacts_, i)
       IN /\ n.failure = "none"
          /\ getNumFromName(mapContacts_, n.value) = Ok(i)
  /\ \A name \in Registered(mapContacts_) :
       LET i == getNumFromName(mapContacts_, name)
       IN /\ i.failure = "none"
          /\ getNameFromNum(mapContacts_, i.value) = Ok(name)

\* C6: every registered name is a key of exactly one of the two maps, and
\* hasSensor(name) is true exactly for the keys of the sensor-bound map.
C6_HasSensorMatchesMap ==
  \A name \in Registered(mapContacts_) :
    /\ (name \in SensorBound(mapContacts_)) # (name \in NotSensorBound(mapContacts_))
    /\ hasSensor(mapContacts_, name) = Ok(name \in SensorBound(mapContacts_))

\* C7: contactWithSensor / contactWithoutSensor, by name or by id, return the stored
\* record of every registered contact of that kind, and fail for a name or an id
\* that was never inserted.
C7_GetReturnsRecord ==
  /\ \A name \in SensorBound(mapContacts_) :
       LET c == mapContacts_.mapContactsWithSensors_[name]
       IN /\ contactWithSensor(mapContacts_, name) = Ok(c)
          /\ contactWithSensorNum(mapContacts_, c.id_) = Ok(c)
  /\ \A name \in NotSensorBound(mapContacts_) :
       LET c == mapContacts_.mapContactsWithoutSensors_[name]
       IN /\ contactWithoutSensor(mapContacts_, name) = Ok(c)
          /\ contactWithoutSensorNum(mapContacts_, c.id_) = Ok(c)
  /\ \A name \in Names \ Registered(mapContacts_) :
       /\ contactWithSensor(mapContacts_, name).failure # "none"
       /\ contactWithoutSensor(mapContacts_, name).failure # "none"
  /\ \A num \in Nums :
       num >= mapContacts_.num_ =>
         /\ contactWithSensorNum(mapContacts_, num).failure # "none"
         /\ contactWithoutSensorNum(mapContacts_, num).failure # "none"

\* C8: the registry never deletes a contact: the name list of a state is a prefix
\* of the name list of the next one, and every id keeps designating the same name.
C8_ListOnlyGrows ==
  [][ /\ IsPrefix(mapContacts_.insertOrder_, mapContacts_'.insertOrder_)
      /\ \A i \in 0..(Len(mapContacts_.insertOrder_) - 1) :
           getNameFromNum(mapContacts_', i) = getNameFromNum(mapContacts_, i) ]_vars

C8_Witness ==
  /\ CycleDone
  /\ diffs # {}
  /\ Len(mapContacts_.insertOrder_) = 3
  /\ \E n \in diffs : InList(mapContacts_.insertOrder_, n)

\* C9: the association reported for a contact record (hasSensor(name) and
\* sensorAttachedToSurface) is the same in every later state.
C9_AssociationFixed ==
  [][ \A name \in Registered(mapContacts_) :
        /\ hasSensor(mapContacts_', name) = hasSensor(mapContacts_, name)
        /\ (name \in SensorBound(mapContacts_)) = (name \in SensorBound(mapContacts_'))
        /\ name \in SensorBound(mapContacts_) =>
             mapContacts_'.mapContactsWithSensors_[name].sensorAttachedToSurface_
               = mapContacts_.mapContactsWithSensors_[name].sensorAttachedToSurface_ ]_vars

C9_Witness ==
  /\ lastCall = [op |-> "resetContact", name |-> "sA"]
  /\ failure = "none"
  /\ "sA" \in SensorBound(mapContacts_)
  /\ ~mapContacts_.mapContactsWithSensors_["sA"].sensorAttachedToSurface_
  /\ oldContacts_ # {}

\* C10: in force-threshold detection a sensor is found in a cycle exactly when its
\* force is strictly greater than robotMass x gravity x proportion.
C10_StrictThreshold ==
  (lastCall.op = "run" /\ ~withContactsDetection_) =>
    \A fs \in ForceSensors :
      fs \in contactsFound_
        <=> lastCall.force[fs] > RobotMass * gravityConstant * ThresholdProportion

C10_Witness ==
  /\ lastCall.op = "run" /\ ~withContactsDetection_
  /\ \E fs \in ForceSensors :
       /\ lastCall.force[fs] = RobotMass * gravityConstant * ThresholdProportion
       /\ fs \notin contactsFound_
  /\ \E fs \in ForceSensors :
       /\ lastCall.force[fs] = RobotMass * gravityConstant * ThresholdProportion + 1
       /\ fs \in contactsFound_

\* C11: a contact that was found in the previous cycle and is not found in this
\* one is in the removed set of this cycle (first cycle below the threshold), and
\* a contact that was already not found in the previous cycle is not in the
\* removed set (later cycles below the threshold): one removal per transition.
C11_OneRemovalPerTransition ==
  [][ CycleDone' =>
        \A fs \in ForceSensors :
          fs \notin contactsFound_' =>
            (fs \in diffs' <=> fs \in contactsFound_) ]_vars

\* C12: a cycle leaves the estimator Tracking exactly when it was Tracking or the
\* found set is not empty; the state vector is initialised in the cycle that
\* switches from Idle to Tracking and in no other; a cycle that completes calls the
\* filter update exactly when Tracking; an Idle cycle processes no contact; between
\* cycles only reset() brings the estimator back to Idle.
C12_IdleUntilFirstContact ==
  [][ /\ lastCall'.op = "run" =>
           /\ simStarted_' = (simStarted_ \/ contactsFound_' # {})
           /\ lastCall'.initStateVector = (~simStarted_ /\ simStarted_')
           /\ failure' = "none" => lastCall'.update = simStarted_'
           /\ ~simStarted_' =>
                /\ diffs' = {}
                /\ UNCHANGED <<mapContacts_, observerContacts, oldContacts_>>
      /\ lastCall'.op = "reset" => ~simStarted_'
      /\ lastCall'.op \notin {"run", "reset"} => simStarted_' = simStarted_ ]_vars

\* a Tracking cycle with an empty found set: the filter is updated, the state
\* vector is not initialised again
C12_Witness ==
  /\ CycleDone
  /\ simStarted_
  /\ contactsFound_ = {}
  /\ lastCall.update
  /\ ~lastCall.initStateVector
  /\ diffs # {}

\* C13: reset() leaves the estimator Idle with an empty registry and an empty
\* previous-cycle found set, and the first cycle after reset() has an empty
\* removed set.
C13_ResetClears ==
  [][ /\ lastCall'.op = "reset" =>
           /\ ~simStarted_'
           /\ Registered(mapContacts_') = {}
           /\ oldContacts_' = {}
      /\ (lastCall.op = "reset" /\ lastCall'.op = "run") => diffs' = {} ]_vars

\* C14: a configure call with a missing, empty or unknown detection strategy
\* string fails, and no run() or update() executes with no strategy selected.
C14_NoStrategyFailsAtSetup ==
  /\ lastCall.op = "ContactObserver::configure" /\ lastCall.algo \notin KnownAlgos
       => failure # "none"
  /\ lastCall.op = "ContactDetector::configure" /\ (~lastCall.present \/ lastCall.algo = "")
       => failure # "none"
  /\ lastCall.op = "MocapVisualizer::configure"
       /\ (~lastCall.present \/ lastCall.str \notin KnownContactsDetections)
       => failure # "none"
  /\ lastCall.op \in {"ContactObserver::run", "ContactObserver::update"}
       => lastCall.contactManager \in KnownAlgos
  /\ lastCall.op = "ContactDetector::run" => lastCall.detectionAlgo_ # ""
  /\ lastCall.op = "MocapVisualizer::run"
       => lastCall.contactsDetection \in KnownContactsDetections

\* C15: the constructor taking an odometry-type string fails unless the string is
\* Flat or Odometry6d and otherwise stores the type named, with the policy
\* NoUpdate; velocityUpdate(string) fails unless the string is NoUpdate,
\* FiniteDiff or FromUpstream and otherwise stores the policy named; no other
\* call changes the policy.
C15_ConfigurationStrings ==
  [][ /\ (lastCall'.op = "Configuration"
            /\ "odometryTypeString" \in DOMAIN lastCall') =>
           IF lastCall'.odometryTypeString \in {"Flat", "Odometry6d"}
           THEN /\ failure' = "none"
                /\ odomConfig'.odometryType_.enumerator = lastCall'.odometryTypeString
                /\ odomConfig'.velocityUpdate_.enumerator = "NoUpdate"
           ELSE failure' # "none" /\ ~odomConfig'.built
      /\ (lastCall'.op = "Configuration" /\ failure' = "none") =>
           odomConfig'.velocityUpdate_.enumerator = "NoUpdate"
      /\ (lastCall'.op = "velocityUpdate" /\ "str" \in DOMAIN lastCall') =>
           IF lastCall'.str \in {"NoUpdate", "FiniteDiff", "FromUpstream"}
           THEN /\ failure' = "none"
                /\ odomConfig'.velocityUpdate_.enumerator = lastCall'.str
           ELSE failure' # "none" /\ odomConfig' = odomConfig
      /\ lastCall'.op \in {"withYawEstimation", "withModeSwitchInGui"} =>
           odomConfig'.velocityUpdate_ = odomConfig.velocityUpdate_ ]_vars

\* a configuration built from a valid string whose policy was then set by name
C15_Witness ==
  /\ odomConfig.built
  /\ odomConfig.odometryType_ = OdometryType("Flat")
  /\ lastCall = [op |-> "velocityUpdate", str |-> "FromUpstream"]
  /\ odomConfig.velocityUpdate_ = VelocityUpdate("FromUpstream")
  /\ failure = "none"

\* C16: after a completed cycle every found name is registered and its id can be
\* looked up; a cycle is never stopped by the lookup of a name that is not
\* registered (a stopped cycle found a name that the host registered without sensor).
C16_FoundRegistered ==
  lastCall.op = "run" =>
    /\ failure = "none" =>
         \A name \in contactsFound_ :
           /\ name \in Registered(mapContacts_)
           /\ getNumFromName(mapContacts_, name).failure = "none"
    /\ failure # "none" =>
         \E name \in contactsFound_ : name \in NotSensorBound(mapContacts_)

\* the cycle that starts the observation finds two sensors never seen before and
\* registers them in the order of the found set
C16_Witness ==
  /\ CycleDone
  /\ lastCall.initStateVector
  /\ contactsFound_ = {"fsL", "fsR"}
  /\ mapContacts_.insertOrder_ = <<"fsL", "fsR">>
  /\ observerContacts = {0, 1}

\* C17: in solver detection the found set of a cycle is the set of sensors of the
\* contacts that the solver supplies for this robot (as first or second robot),
\* none being dropped.
C17_SolverForwarded ==
  (lastCall.op = "run" /\ withContactsDetection_) =>
    contactsFound_ =
      { indirectSurfaceForceSensor(c.surface) :
          c \in { c \in lastCall.solver : c.side \in {"r1", "r2"} } }

\* C17 (amended): in solver detection the found set of a cycle is the set of
\* sensors of the contacts that the solver supplies for this robot with a
\* fixed-base robot on the other side, and whose force along z is strictly above
\* robotMass x gravity x 0.05.
C17_SolverThresholded ==
  (lastCall.op = "run" /\ withContactsDetection_) =>
    \A fs \in ForceSensors :
      fs \in contactsFound_ <=>
        /\ \E c \in lastCall.solver :
             /\ c.side \in {"r1", "r2"}
             /\ c.otherFixed
             /\ indirectSurfaceForceSensor(c.surface) = fs
        /\ lastCall.force[fs] > RobotMass * gravityConstant * SolverThresholdProportion

\* the solver supplies two contacts; the one whose sensor reads exactly the
\* threshold is dropped, the other one is found
C17_Witness ==
  /\ lastCall.op = "run" /\ withContactsDetection_
  /\ Cardinality(lastCall.solver) = 2
  /\ lastCall.force["fsL"] = RobotMass * gravityConstant * SolverThresholdProportion
  /\ lastCall.force["fsR"] = RobotMass * gravityConstant * SolverThresholdProportion + 1
  /\ contactsFound_ = {"fsR"}

\* C18: after the removal of a set contact its isSet_ and wasAlreadySet_ flags, and
\* sensorWasEnabled_ for a contact with sensor, are false, while its id, name,
\* sensorEnabled_ flag and sensor / surface association are those before the removal.
C18_RemovalResetsFlags ==
  [][ lastCall'.op = "removeContact" =>
        LET name == lastCall'.name
            old == RecordOf(mapContacts_, name)
            new == RecordOf(mapContacts_', name)
        IN /\ ~new.isSet_ /\ ~new.wasAlreadySet_
           /\ new.id_ = old.id_ /\ new.name_ = old.name_ /\ new.surface_ = old.surface_
           /\ (name \in SensorBound(mapContacts_')) = (name \in SensorBound(mapContacts_))
           /\ name \in SensorBound(mapContacts_) =>
                /\ ~new.sensorWasEnabled_
                /\ new.sensorEnabled_ = old.sensorEnabled_
                /\ new.forceSensorName_ = old.forceSensorName_
                /\ new.sensorAttachedToSurface_ = old.sensorAttachedToSurface_ ]_vars

\* a contact on surface sA whose sensor the host disabled was detected in one
\* cycle and removed in the next
C18_Witness ==
  /\ lastCall = [op |-> "removeContact", name |-> "sA", wasAlreadySet |-> FALSE]
  /\ "sA" \in SensorBound(mapContacts_)
  /\ ~mapContacts_.mapContactsWithSensors_["sA"].sensorEnabled_
  /\ ~mapContacts_.mapContactsWithSensors_["sA"].sensorAttachedToSurface_
  /\ ~mapContacts_.mapContactsWithSensors_["sA"].isSet_

Eligible == {id \in LoIds : eligible(loContacts[id])}
Selected == lastCall.selected
Candidates == {oriOdometryContacts_[i] : i \in 1..Len(oriOdometryContacts_)}
\* rank of a candidate by descending force : 1 for the last element of the set
RankOf(id) ==
  Len(oriOdometryContacts_) + 1
    - (CHOOSE i \in 1..Len(oriOdometryContacts_) : oriOdometryContacts_[i] = id)

\* C19: the contacts selected are eligible ones (set, useForOrientation_, not at a
\* hand), no eligible contact left out has a larger force than a selected one, and
\* two are selected, or all the eligible ones when there are fewer than two.
C19_TwoHighestEligible ==
  lastCall.op = "selectForOrientationOdometry" =>
    /\ Selected \subseteq Eligible
    /\ \A id \in Selected : id \notin HandIds
    /\ \A s \in Selected, e \in Eligible \ Selected :
         loContacts[e].forceNorm_ <= loContacts[s].forceNorm_
    /\ Cardinality(Selected) = IF Cardinality(Eligible) < 2 THEN Cardinality(Eligible) ELSE 2

\* C20: two eligible contacts of equal force are both candidates, the one of
\* smaller id ranked first, and the candidates are the same for the other
\* insertion orders.
C20_TiesKeptById ==
  lastCall.op = "selectForOrientationOdometry" =>
    /\ \A a, b \in Eligible :
         (a < b /\ loContacts[a].forceNorm_ = loContacts[b].forceNorm_) =>
           /\ a \in Candidates /\ b \in Candidates
           /\ RankOf(a) < RankOf(b)
    /\ \A order \in LoOrders :
         insertCandidates(1, <<>>, loContacts, order) = oriOdometryContacts_

OdometryCycleDone == lastCall.op = "LeggedOdometryManager::run" /\ failure = "none"

\* C21: in every cycle of the odometry the anchor frame comes from the contacts
\* exactly when a contact is active and from the body sensor frame otherwise; the
\* flag anchorFrameMethodChanged_ is true exactly when the source of the cycle is
\* not the source of the previous cycle: true in the cycle that loses the last
\* contact, false again in the next cycle when the source stays the same.
C21_AnchorSource ==
  [][ OdometryCycleDone' =>
        /\ odometry'.worldAnchorPose_
             = (IF lastCall'.found # {} THEN "contacts" ELSE AnchorBodySensor)
        /\ odometry'.currAnchorFromContacts_ = (lastCall'.found # {})
        /\ OdometryCycleDone =>
             /\ odometry'.anchorFrameMethodChanged_
                  = (odometry'.worldAnchorPose_ # odometry.worldAnchorPose_)
             /\ (lastCall.found # {} /\ lastCall'.found = {})
                  => odometry'.anchorFrameMethodChanged_
             /\ (lastCall.found = {} /\ lastCall'.found = {})
                  => ~odometry'.anchorFrameMethodChanged_ ]_vars

\* a cycle that has lost its only contact, the flag being raised
C21_Witness ==
  /\ OdometryCycleDone
  /\ Cardinality(lastCall.removed) = 1
  /\ lastCall.found = {}
  /\ odometry.worldAnchorPose_ = AnchorBodySensor
  /\ odometry.anchorFrameMethodChanged_

C24_SurfaceInsertion ==
  [][ ( /\ lastCall'.op = "insertContactSurface"
        /\ lastCall'.name \notin Registered(mapContacts_) )
      => /\ failure' = "none"
         /\ lastCall'.name \in SensorBound(mapContacts_')
         /\ lastCall'.name \notin NotSensorBound(mapContacts_')
         /\ hasSensor(mapContacts_', lastCall'.name) = Ok(TRUE)
         /\ LET rec == mapContacts_'.mapContactsWithSensors_[lastCall'.name]
            IN /\ rec.name_ = lastCall'.name
               /\ rec.surface_ = lastCall'.name
               /\ rec.forceSensorName_ = lastCall'.forceSensorName
               /\ rec.sensorAttachedToSurface_ = lastCall'.sensorAttachedToSurface
               /\ rec.id_ = mapContacts_.num_
               /\ getNumFromName(mapContacts_', lastCall'.name) = Ok(rec.id_)
               /\ \A other \in Registered(mapContacts_) :
                    /\ other \in Registered(mapContacts_')
                    /\ RecordOf(mapContacts_', other) = RecordOf(mapContacts_, other)
                    /\ RecordOf(mapContacts_', other).id_ # rec.id_
                    /\ ( /\ other \in SensorBound(mapContacts_)
                         /\ RecordOf(mapContacts_, other).surface_ = other
                         /\ RecordOf(mapContacts_, other).forceSensorName_
                              = lastCall'.forceSensorName )
                       => RecordOf(mapContacts_', other).forceSensorName_
                            = rec.forceSensorName_ ]_vars

\* two surfaces registered with the same force sensor, the second one with a
\* sensor that is not attached to the surface
C24_Witness ==
  /\ lastCall.op = "insertContactSurface"
  /\ failure = "none"
  /\ lastCall.name = "sB"
  /\ ~lastCall.sensorAttachedToSurface
  /\ {"sA", "sB"} \subseteq SensorBound(mapContacts_)
  /\ mapContacts_.mapContactsWithSensors_["sA"].surface_ = "sA"
  /\ mapContacts_.mapContactsWithSensors_["sB"].surface_ = "sB"
  /\ mapContacts_.mapContactsWithSensors_["sA"].forceSensorName_ = "fsL"
  /\ mapContacts_.mapContactsWithSensors_["sB"].forceSensorName_ = "fsL"
  /\ mapContacts_.mapContactsWithSensors_["sA"].id_
       # mapContacts_.mapContactsWithSensors_["sB"].id_
  /\ ~mapContacts_.mapContactsWithSensors_["sB"].sensorAttachedToSurface_

\* a cycle that has reached update() of the filter
TrackingCycle == lastCall.op = "run" /\ lastCall.update
TrackingCycleDone == CycleDone /\ lastCall.update
\* ids of registered names
IdsOf(m, names) == {RecordOf(m, name).id_ : name \in names}
\* contacts held by the filter after the first k calls of a cycle, held being those
\* held before the cycle
RECURSIVE FilterAfter(_, _, _)
FilterAfter(held, calls, k) ==
  IF k = 0 THEN held
  ELSE LET before == FilterAfter(held, calls, k - 1)
       IN IF calls[k].op = "addContact" THEN before \cup {calls[k].num}
          ELSE IF calls[k].op = "removeContact" THEN before \ {calls[k].num}
          ELSE before
\* ids given to the calls op of a cycle
CallsOf(calls, op) == {calls[k].num : k \in {j \in 1..Len(calls) : calls[j].op = op}}
\* position of a name in the order of std::set<std::string>
NamePos(name) == CHOOSE i \in 1..Len(NameOrder) : NameOrder[i] = name
\* the entries that addContactLogEntries registers for a contact
ContactLogEntries(name) == {<<prefix, name>> : prefix \in AddedContactLogPrefixes}

C25_FilterProtocol ==
  [][ TrackingCycleDone' =>
        LET calls == lastCall'.calls
        IN /\ observerContacts' = IdsOf(mapContacts_', contactsFound_')
           /\ \A k \in 1..Len(calls) :
                /\ calls[k].op = "addContact"
                     => calls[k].num \notin FilterAfter(observerContacts, calls, k - 1)
                /\ calls[k].op \in {"updateContactWithWrenchSensor", "removeContact"}
                     => calls[k].num \in FilterAfter(observerContacts, calls, k - 1)
           /\ \A j, k \in 1..Len(calls) :
                (j # k /\ calls[j].op # "setIMU" /\ calls[j].op = calls[k].op)
                  => calls[j].num # calls[k].num
           /\ TrackingCycleDone =>
                /\ CallsOf(calls, "addContact")
                     = IdsOf(mapContacts_', contactsFound_' \ contactsFound_)
                /\ CallsOf(calls, "removeContact")
                     = IdsOf(mapContacts_', contactsFound_ \ contactsFound_')
                /\ CallsOf(calls, "updateContactWithWrenchSensor")
                     = IdsOf(mapContacts_', contactsFound_') ]_vars

\* a cycle that follows another one and adds a contact while it removes another
C25_Witness ==
  /\ TrackingCycleDone
  /\ CallsOf(lastCall.calls, "addContact") # {}
  /\ CallsOf(lastCall.calls, "removeContact") # {}
  /\ diffs # {}
  /\ observerContacts = IdsOf(mapContacts_, contactsFound_)

\* C26: addContact is given contactInitCovarianceFirstContacts_ exactly when the
\* filter holds no contact at the call and contactInitCovarianceNewContacts_
\* otherwise; the additions of a cycle come before its removals, so a contact that
\* appears in the cycle where all the contacts held disappear gets the covariance
\* of new contacts, and of the contacts appearing together on an empty filter
\* only the first in name order gets the covariance of first contacts.
C26_InitialCovariance ==
  [][ TrackingCycleDone' =>
        LET calls == lastCall'.calls
            adds == {k \in 1..Len(calls) : calls[k].op = "addContact"}
            removes == {k \in 1..Len(calls) : calls[k].op = "removeContact"}
        IN /\ \A k \in adds :
                calls[k].covariance
                  = (IF FilterAfter(observerContacts, calls, k - 1) = {}
                     THEN "contactInitCovarianceFirstContacts_"
                     ELSE "contactInitCovarianceNewContacts_")
           /\ \A a \in adds, r \in removes : a < r
           /\ observerContacts # {} =>
                \A k \in adds : calls[k].covariance = "contactInitCovarianceNewContacts_"
           /\ observerContacts = {} =>
                \A k \in adds :
                  (calls[k].covariance = "contactInitCovarianceFirstContacts_")
                    = (\A name \in contactsFound_' :
                         RecordOf(mapContacts_', name).id_ = calls[k].num
                           => \A other \in contactsFound_' : NamePos(name) <= NamePos(other)) ]_vars

\* a cycle where the only contact held disappears while another one appears, added
\* with the covariance of new contacts
C26_Witness ==
  /\ TrackingCycleDone
  /\ Cardinality(diffs) = 1
  /\ Cardinality(observerContacts) = 1
  /\ \E k \in 1..Len(lastCall.calls) :
       /\ lastCall.calls[k].op = "addContact"
       /\ lastCall.calls[k].covariance = "contactInitCovarianceNewContacts_"
       /\ lastCall.calls[k].num \in observerContacts

\* C27: at the end of findContacts the flag isExternalWrench_ of every force
\* sensor is true, and the additional wrench given to the filter in a cycle sums
\* the force sensors that are not in the contacts found in that cycle.
C27_ExternalWrench ==
  lastCall.op = "run" =>
    /\ \A fs \in ForceSensors : isExternalWrench_[fs]
    /\ lastCall.additionalWrench = ForceSensors \ contactsFound_

\* a cycle with one sensor in contact and the other one summed as external wrench
C27_Witness ==
  /\ lastCall.op = "run"
  /\ contactsFound_ = {"fsL"}
  /\ lastCall.additionalWrench = {"fsR"}
  /\ isExternalWrench_["fsL"]

\* C28: every entry registered by addToLogger is removed by removeFromLogger, every
\* entry registered for a contact is removed when the contact is removed, and a
\* cycle registers no name that the logger holds already.
C28_LogSymmetric ==
  /\ lastCall.op = "removeFromLogger" => logger \cap ObserverLogEntries = {}
  /\ CycleDone => \A name \in diffs : logger \cap ContactLogEntries(name) = {}
  /\ lastCall.op = "run" => lastCall.alreadyLogged = {}

\* C29: a cycle that updates the filter completes without lookup failure for
\* every non-empty list of IMUs: the indices given to getNameFromNum are smaller
\* than the number of IMUs registered by updateIMUs.
C29_IMUReadsValid ==
  (TrackingCycle /\ IMUs_ # <<>>) =>
    /\ failure = "none"
    /\ \A num \in IMUIndicesRead : num < Len(mapIMUs_.insertOrder_)

\* C30: in every cycle the measurement given to setIMU under the index of an IMU
\* is the reading of the body sensor of that name, and the index of an IMU is the
\* one it got at its first registration.
C30_IMUMeasurement ==
  [][ TrackingCycle' =>
        \A k \in 1..Len(lastCall'.calls) :
          lastCall'.calls[k].op = "setIMU" =>
            /\ lastCall'.calls[k].measurement = lastCall'.calls[k].kinematics
            /\ lastCall'.calls[k].num = mapIMUs_'.mapIMUs_[lastCall'.calls[k].kinematics]
            /\ lastCall'.calls[k].kinematics \in DOMAIN mapIMUs_.mapIMUs_
                 => lastCall'.calls[k].num = mapIMUs_.mapIMUs_[lastCall'.calls[k].kinematics] ]_vars

====
